---- MODULE Spec2Model ----
(***************************************************************************)
(* The monitoring engine of ViewHub (services/BackgroundMonitoring.ts),    *)
(* the usage-ping hook with its schedule helper, and the service worker's  *)
(* offline queue, as one state machine.                                    *)
(*                                                                         *)
(* Time is a whole number of seconds.  A calendar day has DayLen seconds,  *)
(* so that day boundaries fall inside the explored horizon; wall-clock     *)
(* "HH:MM:SS" strings are zero padded, so their string order is the order  *)
(* of the second of the day they denote, which is what the model keeps.    *)
(***************************************************************************)
EXTENDS Integers, Sequences, FiniteSets, TLC

\* ------------------------------------------------------------------ bounds
MaxTime == 19          \* the clock stops advancing second by second here
MaxRows == 2           \* rows the mobile_usage table may hold
MaxInFlight == 2       \* remote requests awaiting their response
DayLen == 60           \* seconds of one calendar day
SuspendGap == 20       \* seconds the process stays suspended in one gap
TzShift == 10          \* the local time zones explored are UTC, UTC + TzShift, UTC - TzShift
MaxPings == 1          \* ping inserts and retry timers pending at once
MaxGen == 1            \* distinct ids the service worker can generate
MaxPayload == 2        \* distinct payloads a queued record can carry
MaxAccepted == 3       \* records the usage API accepts in one behaviour
MaxErrors == 1         \* failed session inserts the log tells apart
MaxFetches == 1        \* fetches and retry timers of the schedule hook pending at once
YearLen == 7           \* calendar days of one year

\* ------------------------------------------------------- program constants
NULL == -1
VIOLATION_THRESHOLD == 15
REFRESH_CLOSES_AFTER == 15
ACTIVITY_GAP == 2
PING_DURATION == 60
RETRY_MAX_ATTEMPTS == 3
FETCH_MAX_RETRIES == 3
FETCH_RETRY_BASE == 3
EXCEPTION_RETRY_DELAY == 5

VARIABLES
    now,                    \* Date.now(), in seconds
    tz,                     \* local time minus UTC, in seconds
    hidden,                 \* document.hidden
    dbSchedules,            \* remote table schedules
    dbHolidays,             \* remote table holidays
    mobile_usage,           \* remote table mobile_usage; a row's id is its index
    inflight,               \* remote requests issued and not yet answered
    userId,
    userGroups,
    schedules,
    holidays,
    isActive,
    currentUsageSession,
    sessionStartTime,
    monitoringInterval,
    screenCheckInterval,
    networkStatus,
    isScreenActive,
    lastActivityTime,
    consecutiveActiveTime,
    hookSchedules,          \* useScheduleManager: the schedules state
    groupId,                \* the group the hooks were given
    isMobileApp,
    screenIsOn,
    hasInternetConnection,
    authUser,               \* supabase.auth.getUser(): the signed-in user's id
    pingFlight,             \* the ping path's inserts and retry timers
    retryAttempts,          \* useScheduleManager: retryAttempts[fetchKey], 0 if absent
    fetchFlight,            \* the schedule hook's fetches and retry timers
    pingClosure,            \* what the interval's createUsageRecord closes over
    listenerClosure,        \* what the appStateChange listener's createUsageRecord closes over
    fetchClosure,           \* the retryAttempts the effects' fetchSchedules closes over
    offlineDB,              \* service worker: the IndexedDB store mobileUsage, by key
    syncRegistered,         \* service worker: sync-mobile-usage is registered
    syncRunning,            \* service worker: a sync event is being handled
    posts,                  \* service worker: the POSTs of the running flush
    apiStore,               \* the rows /api/mobile-usage has stored
    appUserId,              \* App: the userId state
    backgroundMonitoringInitialized,
    appAwaiting,            \* App: initializeBackgroundMonitoring awaits initialize
    cleanup,                \* App: what the monitoring effect's cleanup captured
    notifications,          \* calls of sendViolationNotification not settled yet
    insertErrors            \* console.error of startUsageSession: inserts that failed

envVars == <<now, tz, hidden>>
dbVars == <<dbSchedules, dbHolidays, mobile_usage>>
cacheVars == <<userId, userGroups, schedules, holidays>>
sessionVars == <<currentUsageSession, sessionStartTime>>
timerVars == <<isActive, monitoringInterval, screenCheckInterval>>
activityVars == <<isScreenActive, lastActivityTime, consecutiveActiveTime>>
engineVars == <<cacheVars, sessionVars, timerVars, activityVars, networkStatus>>
fetchVars == <<retryAttempts, fetchFlight>>
closureVars == <<pingClosure, listenerClosure, fetchClosure>>
hookVars == <<hookSchedules, groupId, isMobileApp, screenIsOn, hasInternetConnection,
              authUser, pingFlight, fetchVars, closureVars>>
swVars == <<offlineDB, syncRegistered, syncRunning, posts, apiStore>>
appVars == <<appUserId, backgroundMonitoringInitialized, appAwaiting, cleanup>>
vars == <<envVars, dbVars, inflight, engineVars, hookVars, swVars, appVars, notifications,
         insertErrors>>

\* ------------------------------------------------------------ data shapes
Schedule(g, d, s, e, b) ==
    [group_id |-> g, day_of_week |-> d, start_time |-> s, end_time |-> e, is_break |-> b]

Holiday(g, d, r) == [group_id |-> g, date |-> d, is_recurring |-> r]

\* A row of mobile_usage; is_within_schedule is FALSE where the insert left it out.
UsageRow(u, g, s, e, d, w) ==
    [user_id |-> u, group_id |-> g, start_time |-> s, end_time |-> e, duration |-> d,
     is_within_schedule |-> w]

\* A request to the remote store, as it travels: what it is, what it carries, and
\* whether it left the device while the device was disconnected.
Request(k, c, i, u, g, s, e, d, gs, off) ==
    [kind |-> k, cont |-> c, id |-> i, user_id |-> u, group_id |-> g, start_time |-> s,
     end_time |-> e, duration |-> d, groupIds |-> gs, offline |-> off]

RemoveAt(seq, i) == SubSeq(seq, 1, i - 1) \o SubSeq(seq, i + 1, Len(seq))

Range(seq) == {seq[i] : i \in 1..Len(seq)}

\* ------------------------------------------------------- date conversions
\* now.getDay(): the day of the week of the local calendar day.
getDay(t) == ((t + tz) \div DayLen) % 7

\* now.toTimeString().slice(0, 8): the local wall-clock time.
toTimeString(t) == (t + tz) % DayLen

\* now.toISOString().split('T')[0]: the UTC calendar day.
toISODate(t) == t \div DayLen

\* new Date('YYYY-MM-DD'): midnight UTC of that day.
parseDate(d) == d * DayLen

\* now.toISOString(): the UTC calendar day and the UTC time of day.
toISOString(t) == <<t \div DayLen, t % DayLen>>

\* new Date(timestamp) of such a string: the instant it denotes.
newDate(iso) == iso[1] * DayLen + iso[2]

\* ----------------------------------------------------- schedule evaluation
\* checkSchedules, the holiday test: any cached holiday whose date, parsed and
\* printed again as a UTC day, is today's UTC day.
isHoliday ==
    \E i \in 1..Len(holidays) : toISODate(parseDate(holidays[i].date)) = toISODate(now)

\* checkSchedules, the filter's predicate.
isActiveSchedule(s) ==
    /\ s.day_of_week = getDay(now)
    /\ ~s.is_break
    /\ toTimeString(now) >= s.start_time
    /\ toTimeString(now) <= s.end_time

activeSchedules == SelectSeq(schedules, isActiveSchedule)

ExceedsThresholdOffByOne(c) == c >= VIOLATION_THRESHOLD

ExceedsThreshold(c) == c > VIOLATION_THRESHOLD

\* Math.floor((Date.now() - (this.sessionStartTime || Date.now())) / 1000)
elapsed ==
    now - (IF sessionStartTime = NULL \/ sessionStartTime = 0 THEN now ELSE sessionStartTime)

pendingInserts == Cardinality({i \in 1..Len(inflight) : inflight[i].kind = "insert"})

\* ------------------------------------------------------- session operations
\* The close as it would leave had the fields been cleared before the write was built.
endCurrentSessionClearingFirst(off) ==
    IF currentUsageSession = NULL
    THEN UNCHANGED <<inflight, sessionVars>>
    ELSE /\ Len(inflight) < MaxInFlight
         /\ inflight' = Append(inflight,
                Request("update", "end", NULL, NULL, NULL, NULL, now, 0, <<>>, off))
         /\ currentUsageSession' = NULL
         /\ sessionStartTime' = NULL

\* endCurrentSession: endSession() runs up to its await, so the update is built from
\* the fields as they are, and the fields are cleared while it is on its way.
endCurrentSession(off) ==
    IF currentUsageSession = NULL
    THEN UNCHANGED <<inflight, sessionVars>>
    ELSE /\ Len(inflight) < MaxInFlight
         /\ inflight' = Append(inflight,
                Request("update", "end", currentUsageSession, NULL, NULL, NULL,
                        now, elapsed, <<>>, off))
         /\ currentUsageSession' = NULL
         /\ sessionStartTime' = NULL

startUsageSession(schedule) ==
    IF currentUsageSession # NULL
    THEN UNCHANGED <<inflight, sessionVars>>
    ELSE /\ Len(inflight) < MaxInFlight
         /\ Len(mobile_usage) + pendingInserts < MaxRows
         /\ inflight' = Append(inflight,
                Request("insert", "start", NULL, userId, schedule.group_id, now,
                        NULL, NULL, <<>>, ~networkStatus))
         /\ UNCHANGED sessionVars

recordViolation(schedule) ==
    IF currentUsageSession = NULL
    THEN startUsageSession(schedule)
    ELSE /\ Len(inflight) < MaxInFlight
         /\ inflight' = Append(inflight,
                Request("update", "refresh", currentUsageSession, NULL, NULL, NULL,
                        IF elapsed > REFRESH_CLOSES_AFTER THEN now ELSE NULL,
                        elapsed, <<>>, ~networkStatus))
         /\ UNCHANGED sessionVars

checkSchedules ==
    IF userId = NULL \/ ~networkStatus \/ Len(userGroups) = 0
    THEN UNCHANGED <<inflight, sessionVars>>
    ELSE IF isHoliday
    THEN endCurrentSession(FALSE)
    ELSE IF Len(activeSchedules) > 0
    THEN IF isScreenActive /\ ExceedsThreshold(consecutiveActiveTime)
         THEN recordViolation(activeSchedules[1])
         ELSE IF ExceedsThreshold(consecutiveActiveTime)
         THEN startUsageSession(activeSchedules[1])
         ELSE UNCHANGED <<inflight, sessionVars>>
    ELSE endCurrentSession(FALSE)

\* The engine's own 10 s interval.
MonitoringIntervalTick ==
    /\ monitoringInterval
    /\ checkSchedules
    /\ UNCHANGED <<hookVars, swVars, appVars, insertErrors, notifications, envVars, dbVars, cacheVars, timerVars, activityVars, networkStatus>>

\* checkSchedules called from outside: the service worker's MONITORING_PULSE and the
\* activity-driven call of App.tsx.
PulseTick ==
    /\ checkSchedules
    /\ UNCHANGED <<hookVars, swVars, appVars, insertErrors, notifications, envVars, dbVars, cacheVars, timerVars, activityVars, networkStatus>>

\* ------------------------------------------------------ remote responses
\* console.error("Error starting usage session:", error): one more line in the log,
\* of which the model keeps the first MaxErrors.
logged(n) == IF n < MaxErrors THEN n + 1 ELSE n

\* The answer handled as if a failed insert left a session id behind.
InsertResponseKeepingId(i, ok) ==
    /\ i \in 1..Len(inflight)
    /\ inflight[i].kind = "insert"
    /\ inflight' = RemoveAt(inflight, i)
    /\ IF ok
       THEN /\ ~inflight[i].offline
            /\ mobile_usage' = Append(mobile_usage,
                   UsageRow(inflight[i].user_id, inflight[i].group_id,
                            inflight[i].start_time, NULL, NULL, FALSE))
            /\ currentUsageSession' = Len(mobile_usage) + 1
            /\ sessionStartTime' = now
            /\ notifications' = notifications + 1
            /\ UNCHANGED insertErrors
       ELSE /\ insertErrors' = logged(insertErrors)
            /\ currentUsageSession' = 0
            /\ UNCHANGED <<mobile_usage, sessionStartTime, notifications>>
    /\ UNCHANGED <<hookVars, swVars, appVars, envVars, dbSchedules, dbHolidays, cacheVars, timerVars, activityVars,
                   networkStatus>>

\* The insert of startUsageSession is answered.
InsertResponse(i, ok) ==
    /\ i \in 1..Len(inflight)
    /\ inflight[i].kind = "insert"
    /\ inflight' = RemoveAt(inflight, i)
    /\ IF ok
       THEN /\ ~inflight[i].offline
            /\ mobile_usage' = Append(mobile_usage,
                   UsageRow(inflight[i].user_id, inflight[i].group_id,
                            inflight[i].start_time, NULL, NULL, FALSE))
            /\ currentUsageSession' = Len(mobile_usage) + 1
            /\ sessionStartTime' = now
            /\ notifications' = notifications + 1
            /\ UNCHANGED insertErrors
       ELSE /\ insertErrors' = logged(insertErrors)
            /\ UNCHANGED <<mobile_usage, sessionVars, notifications>>
    /\ UNCHANGED <<hookVars, swVars, appVars, envVars, dbSchedules, dbHolidays, cacheVars, timerVars, activityVars,
                   networkStatus>>

\* An update (a duration refresh or a close) is answered.
UpdateResponse(i, ok) ==
    /\ i \in 1..Len(inflight)
    /\ inflight[i].kind = "update"
    /\ inflight' = RemoveAt(inflight, i)
    /\ IF ok
       THEN /\ ~inflight[i].offline
            /\ mobile_usage' = [mobile_usage EXCEPT ![inflight[i].id] =
                   [@ EXCEPT !.end_time = inflight[i].end_time,
                             !.duration = inflight[i].duration]]
       ELSE UNCHANGED mobile_usage
    /\ UNCHANGED <<hookVars, swVars, appVars, insertErrors, notifications, envVars, dbSchedules, dbHolidays, engineVars>>

\* sendViolationNotification settles: the notification was scheduled or shown, or
\* Device.getInfo or LocalNotifications.schedule threw and the catch logged it.
\* Nothing follows the await in startUsageSession.
notificationSettlesRollingBack(shown) ==
    /\ notifications > 0
    /\ notifications' = notifications - 1
    /\ IF shown
       THEN UNCHANGED sessionVars
       ELSE currentUsageSession' = NULL /\ sessionStartTime' = NULL
    /\ UNCHANGED <<hookVars, swVars, appVars, insertErrors, envVars, dbVars, inflight, cacheVars,
                   timerVars, activityVars, networkStatus>>

notificationSettles(shown) ==
    /\ notifications > 0
    /\ notifications' = notifications - 1
    /\ UNCHANGED <<hookVars, swVars, appVars, insertErrors, envVars, dbVars, inflight, engineVars>>

\* --------------------------------------------------- refresh and lifecycle
inGroups(gs, rows) == SelectSeq(rows, LAMBDA r : r.group_id \in Range(gs))

startMonitoring ==
    /\ monitoringInterval' = TRUE
    /\ screenCheckInterval' = TRUE

\* refreshSchedules and refreshHolidays up to their await; cont says who awaits.
selectRequest(kind, cont, gs) ==
    Request(kind, cont, NULL, NULL, NULL, NULL, NULL, NULL, gs, ~networkStatus)

initialize(u, gs) ==
    /\ Len(inflight) < MaxInFlight
    /\ userId' = u
    /\ userGroups' = gs
    /\ inflight' = Append(inflight, selectRequest("selectSchedules", "initialize", gs))
    /\ UNCHANGED <<hookVars, swVars, appVars, insertErrors, notifications, envVars, dbVars, schedules, holidays, sessionVars, timerVars,
                   activityVars, networkStatus>>

\* refreshSchedules called on its own: by the schedule hook after a fetch and by the
\* App's realtime listener.
refreshSchedules ==
    /\ Len(userGroups) # 0
    /\ \A i \in 1..Len(inflight) : inflight[i].kind # "selectSchedules"
    /\ Len(inflight) < MaxInFlight
    /\ inflight' = Append(inflight, selectRequest("selectSchedules", "none", userGroups))
    /\ UNCHANGED <<hookVars, swVars, appVars, insertErrors, notifications, envVars, dbVars, engineVars>>

\* The answer handled as if `data || []` were assigned before the error is tested.
SchedulesResponseClearing(i, ok) ==
    /\ i \in 1..Len(inflight)
    /\ inflight[i].kind = "selectSchedules"
    /\ ok => ~inflight[i].offline
    /\ schedules' = IF ok THEN inGroups(inflight[i].groupIds, dbSchedules) ELSE <<>>
    /\ IF inflight[i].cont # "initialize"
       THEN /\ inflight' = RemoveAt(inflight, i)
            /\ UNCHANGED timerVars
       ELSE IF Len(userGroups) = 0
       THEN /\ inflight' = RemoveAt(inflight, i)
            /\ startMonitoring
            /\ isActive' = TRUE
       ELSE /\ inflight' = Append(RemoveAt(inflight, i),
                   selectRequest("selectHolidays", "initialize", userGroups))
            /\ UNCHANGED timerVars
    /\ UNCHANGED <<hookVars, swVars, appVars, insertErrors, notifications, envVars, dbVars, userId, userGroups, holidays, sessionVars,
                   activityVars, networkStatus>>

\* The select of refreshSchedules is answered; initialize, when it awaits this
\* refresh, goes on into refreshHolidays.
SchedulesResponse(i, ok) ==
    /\ i \in 1..Len(inflight)
    /\ inflight[i].kind = "selectSchedules"
    /\ ok => ~inflight[i].offline
    /\ schedules' = IF ok THEN inGroups(inflight[i].groupIds, dbSchedules) ELSE schedules
    /\ IF inflight[i].cont # "initialize"
       THEN /\ inflight' = RemoveAt(inflight, i)
            /\ UNCHANGED timerVars
       ELSE IF Len(userGroups) = 0
       THEN /\ inflight' = RemoveAt(inflight, i)
            /\ startMonitoring
            /\ isActive' = TRUE
       ELSE /\ inflight' = Append(RemoveAt(inflight, i),
                   selectRequest("selectHolidays", "initialize", userGroups))
            /\ UNCHANGED timerVars
    /\ UNCHANGED <<hookVars, swVars, appVars, insertErrors, notifications, envVars, dbVars, userId, userGroups, holidays, sessionVars,
                   activityVars, networkStatus>>

\* The select of refreshHolidays is answered; initialize then starts the timers.
HolidaysResponse(i, ok) ==
    /\ i \in 1..Len(inflight)
    /\ inflight[i].kind = "selectHolidays"
    /\ ok => ~inflight[i].offline
    /\ holidays' = IF ok THEN inGroups(inflight[i].groupIds, dbHolidays) ELSE holidays
    /\ inflight' = RemoveAt(inflight, i)
    /\ startMonitoring
    /\ isActive' = TRUE
    /\ UNCHANGED <<hookVars, swVars, appVars, insertErrors, notifications, envVars, dbVars, userId, userGroups, schedules, sessionVars,
                   activityVars, networkStatus>>

stop ==
    /\ endCurrentSession(~networkStatus)
    /\ monitoringInterval' = FALSE
    /\ screenCheckInterval' = FALSE
    /\ isActive' = FALSE
    /\ userId' = NULL
    /\ userGroups' = <<>>
    /\ schedules' = <<>>
    /\ holidays' = <<>>
    /\ UNCHANGED <<hookVars, swVars, appVars, insertErrors, notifications, envVars, dbVars, activityVars, networkStatus>>

\* ------------------------------------------------- connectivity and activity
\* The listener of setupNetworkMonitoring.
networkStatusChange(connected) ==
    /\ connected # networkStatus
    /\ networkStatus' = connected
    /\ IF connected THEN UNCHANGED <<inflight, sessionVars>> ELSE endCurrentSession(TRUE)
    /\ UNCHANGED <<hookVars, swVars, appVars, insertErrors, notifications, envVars, dbVars, cacheVars, timerVars, activityVars>>

\* lastActivityTime as the clock moves to t.  The code reads the field only in
\* "now - lastActivityTime < 2000", so every value at least ACTIVITY_GAP old is kept as
\* the one value t - ACTIVITY_GAP.
aged(t) == IF t - lastActivityTime > ACTIVITY_GAP THEN t - ACTIVITY_GAP ELSE lastActivityTime

\* A mousedown, mousemove, keypress, scroll, touchstart or click.
updateActivityTime ==
    /\ ~hidden
    /\ lastActivityTime' = now
    /\ isScreenActive' = TRUE
    /\ UNCHANGED <<hookVars, swVars, appVars, insertErrors, notifications, envVars, dbVars, inflight, cacheVars, sessionVars, timerVars,
                   consecutiveActiveTime, networkStatus>>

visibilitychange ==
    /\ hidden' = ~hidden
    /\ IF hidden'
       THEN /\ isScreenActive' = FALSE
            /\ consecutiveActiveTime' = 0
            /\ UNCHANGED lastActivityTime
       ELSE /\ lastActivityTime' = now
            /\ isScreenActive' = TRUE
            /\ UNCHANGED consecutiveActiveTime
    /\ UNCHANGED <<hookVars, swVars, appVars, insertErrors, notifications, now, tz, dbVars, inflight, cacheVars, sessionVars, timerVars,
                   networkStatus>>

\* The sampling with an activity exactly ACTIVITY_GAP old still counted as recent.
checkScreenActivityInclusive ==
    /\ screenCheckInterval
    /\ now < MaxTime
    /\ now' = now + 1
    /\ IF now' - lastActivityTime <= ACTIVITY_GAP
       THEN /\ isScreenActive' = TRUE
            /\ consecutiveActiveTime' = consecutiveActiveTime + 1
       ELSE /\ isScreenActive' = FALSE
            /\ consecutiveActiveTime' = 0
    /\ lastActivityTime' = aged(now')
    /\ UNCHANGED <<hookVars, swVars, appVars, insertErrors, notifications, tz, hidden, dbVars, inflight, cacheVars, sessionVars, timerVars,
                   networkStatus>>

\* The 1 s interval: a second passes and checkScreenActivity runs.
checkScreenActivity ==
    /\ screenCheckInterval
    /\ now < MaxTime
    /\ now' = now + 1
    /\ IF now' - lastActivityTime < ACTIVITY_GAP
       THEN /\ isScreenActive' = TRUE
            /\ consecutiveActiveTime' = consecutiveActiveTime + 1
       ELSE /\ isScreenActive' = FALSE
            /\ consecutiveActiveTime' = 0
    /\ lastActivityTime' = aged(now')
    /\ UNCHANGED <<hookVars, swVars, appVars, insertErrors, notifications, tz, hidden, dbVars, inflight, cacheVars, sessionVars, timerVars,
                   networkStatus>>

\* A second passes with no sampling timer running.
TimePasses ==
    /\ ~screenCheckInterval
    /\ now < MaxTime
    /\ now' = now + 1
    /\ lastActivityTime' = aged(now')
    /\ UNCHANGED <<hookVars, swVars, appVars, insertErrors, notifications, tz, hidden, dbVars, inflight, cacheVars, sessionVars, timerVars,
                   isScreenActive, consecutiveActiveTime, networkStatus>>

\* The process is suspended: time passes and no timer runs.
Suspend ==
    /\ now <= MaxTime
    /\ now' = now + SuspendGap
    /\ lastActivityTime' = aged(now')
    /\ UNCHANGED <<hookVars, swVars, appVars, insertErrors, notifications, tz, hidden, dbVars, inflight, cacheVars, sessionVars, timerVars,
                   isScreenActive, consecutiveActiveTime, networkStatus>>

\* ------------------------------------------------------ the schedule hook
\* compareTimeStrings of @/utils/time-utils: negative, zero or positive as the
\* wall-clock time a is before, at or after b.
compareTimeStrings(a, b) == IF a < b THEN -1 ELSE IF a = b THEN 0 ELSE 1

withinTimes(t, s) ==
    /\ compareTimeStrings(toTimeString(t), s.start_time) >= 0
    /\ compareTimeStrings(toTimeString(t), s.end_time) <= 0

\* Every render makes its own isWithinSchedule, over the schedules state of that
\* render: ss stands for that state.
daySchedules(ss, t) == SelectSeq(ss, LAMBDA s : s.day_of_week = getDay(t))

duringBreak(ss, t) ==
    \E i \in 1..Len(daySchedules(ss, t)) :
        daySchedules(ss, t)[i].is_break /\ withinTimes(t, daySchedules(ss, t)[i])

isWithinScheduleOf(ss, timestamp) ==
    IF Len(ss) = 0
    THEN TRUE
    ELSE IF Len(daySchedules(ss, newDate(timestamp))) = 0
    THEN FALSE
    ELSE IF duringBreak(ss, newDate(timestamp))
    THEN FALSE
    ELSE \E i \in 1..Len(daySchedules(ss, newDate(timestamp))) :
            /\ ~daySchedules(ss, newDate(timestamp))[i].is_break
            /\ withinTimes(newDate(timestamp), daySchedules(ss, newDate(timestamp))[i])

\* isWithinSchedule of the latest render.
isWithinSchedule(timestamp) == isWithinScheduleOf(hookSchedules, timestamp)

\* A fetch of the schedule hook on its way, or the timer of its retry; seen is the
\* retryAttempts of the render whose fetchSchedules runs it.
Fetch(k, seen, due) == [kind |-> k, seen |-> seen, due |-> due]

\* 3000 * Math.pow(2, currentRetries) ms.
fetchDelay(currentRetries) == FETCH_RETRY_BASE * 2 ^ currentRetries

\* fetchSchedules of a render that saw retryAttempts as seen, up to its await.
fetchSchedules(seen) ==
    /\ groupId # NULL
    /\ Len(fetchFlight) < MaxFetches
    /\ fetchFlight' = Append(fetchFlight, Fetch("select", seen, NULL))
    /\ UNCHANGED <<envVars, dbVars, inflight, engineVars, appVars, insertErrors, notifications,
                   swVars, hookSchedules, groupId, isMobileApp, screenIsOn,
                   hasInternetConnection, authUser, pingFlight, retryAttempts, closureVars>>

\* The select of fetchSchedules is answered.  With rows: the retry count is set to 0,
\* the rows become the schedules state and the engine is told to refresh its own
\* cache.  With an error: the retry count becomes one more than the count the running
\* closure saw, and that closure's fetchSchedules is called again after the delay, or
\* nothing follows once the count it saw is 3.  Thrown: the same closure is called
\* again after 5 s.
fetchResponse(i, outcome) ==
    /\ i \in 1..Len(fetchFlight)
    /\ fetchFlight[i].kind = "select"
    /\ CASE outcome = "ok" ->
              /\ retryAttempts' = 0
              /\ hookSchedules' = inGroups(<<groupId>>, dbSchedules)
              /\ fetchFlight' = RemoveAt(fetchFlight, i)
              /\ IF Len(userGroups) = 0
                 THEN UNCHANGED inflight
                 ELSE /\ Len(inflight) < MaxInFlight
                      /\ inflight' = Append(inflight,
                             selectRequest("selectSchedules", "none", userGroups))
         [] outcome = "error" ->
              /\ IF fetchFlight[i].seen < FETCH_MAX_RETRIES
                 THEN /\ retryAttempts' = fetchFlight[i].seen + 1
                      /\ fetchFlight' = [fetchFlight EXCEPT ![i] =
                             Fetch("timer", fetchFlight[i].seen,
                                   now + fetchDelay(fetchFlight[i].seen))]
                 ELSE /\ fetchFlight' = RemoveAt(fetchFlight, i)
                      /\ UNCHANGED retryAttempts
              /\ UNCHANGED <<hookSchedules, inflight>>
         [] outcome = "throw" ->
              /\ fetchFlight' = [fetchFlight EXCEPT ![i] =
                     Fetch("timer", fetchFlight[i].seen, now + EXCEPTION_RETRY_DELAY)]
              /\ UNCHANGED <<retryAttempts, hookSchedules, inflight>>
    /\ UNCHANGED <<envVars, dbVars, engineVars, appVars, insertErrors, notifications, swVars,
                   groupId, isMobileApp, screenIsOn, hasInternetConnection, authUser,
                   pingFlight, closureVars>>

\* The timer of a retry fires: the closure that armed it calls its fetchSchedules.
fetchRetry(i) ==
    /\ i \in 1..Len(fetchFlight)
    /\ fetchFlight[i].kind = "timer"
    /\ now >= fetchFlight[i].due
    /\ groupId # NULL
    /\ fetchFlight' = [fetchFlight EXCEPT ![i] = Fetch("select", fetchFlight[i].seen, NULL)]
    /\ UNCHANGED <<envVars, dbVars, inflight, engineVars, appVars, insertErrors, notifications,
                   swVars, hookSchedules, groupId, isMobileApp, screenIsOn,
                   hasInternetConnection, authUser, pingFlight, retryAttempts, closureVars>>

\* ---------------------------------------------------------- the usage ping
\* An insert of the ping path on its way, or the timer of one of its retries.
Ping(k, n, u, g, s, due) ==
    [kind |-> k, attempt |-> n, user_id |-> u, group_id |-> g, start_time |-> s,
     due |-> due]

pendingPings == Cardinality({i \in 1..Len(pingFlight) : pingFlight[i].kind = "insert"})

retryDelayLinear(retryCount) == 2 * retryCount

\* 2000 * Math.pow(2, retryCount - 1) ms.
retryDelay(retryCount) == 2 * 2 ^ (retryCount - 1)

\* What a createUsageRecord closes over besides groupId and isMobileApp, on which
\* every effect that keeps one depends: the props and the isWithinSchedule of the
\* render that made it.
Closure(on, connected, ss) ==
    [screenIsOn |-> on, hasInternetConnection |-> connected, schedules |-> ss]

\* The tests a call of the createUsageRecord of closure c passes before its insert.
reachesInsert(c) ==
    /\ groupId # NULL
    /\ isMobileApp /\ c.screenIsOn /\ c.hasInternetConnection
    /\ isWithinScheduleOf(c.schedules, toISOString(now))
    /\ authUser # NULL

\* createUsageRecord, up to the await of its insert; a call that returns early
\* changes nothing.
createUsageRecord(c) ==
    /\ reachesInsert(c)
    /\ Len(pingFlight) < MaxPings
    /\ Len(mobile_usage) + pendingInserts + pendingPings < MaxRows
    /\ pingFlight' = Append(pingFlight, Ping("insert", 0, authUser, groupId, now, NULL))
    /\ UNCHANGED <<envVars, dbVars, inflight, engineVars, appVars, insertErrors, notifications, swVars, hookSchedules, groupId,
                   isMobileApp, screenIsOn, hasInternetConnection, authUser, fetchVars, closureVars>>

\* screenIsOn or hasInternetConnection changes: the render that follows runs the ping
\* effect again, which clears the interval and starts the ping service anew, with a
\* first call of the new render's createUsageRecord and an interval that keeps it.
propsChange(on, connected) ==
    /\ <<on, connected>> # <<screenIsOn, hasInternetConnection>>
    /\ screenIsOn' = on
    /\ hasInternetConnection' = connected
    /\ pingClosure' = Closure(on, connected, hookSchedules)
    /\ IF reachesInsert(Closure(on, connected, hookSchedules))
       THEN /\ Len(pingFlight) < MaxPings
            /\ Len(mobile_usage) + pendingInserts + pendingPings < MaxRows
            /\ pingFlight' = Append(pingFlight,
                   Ping("insert", 0, authUser, groupId, now, NULL))
       ELSE UNCHANGED pingFlight
    /\ UNCHANGED <<envVars, dbVars, inflight, engineVars, appVars, insertErrors, notifications,
                   swVars, hookSchedules, groupId, isMobileApp, authUser, fetchVars,
                   listenerClosure, fetchClosure>>

\* The insert of a ping, or of one of its retries, is answered.
pingResponse(i, ok) ==
    /\ i \in 1..Len(pingFlight)
    /\ pingFlight[i].kind = "insert"
    /\ IF ok
       THEN /\ mobile_usage' = Append(mobile_usage,
                   UsageRow(pingFlight[i].user_id, pingFlight[i].group_id,
                            pingFlight[i].start_time, NULL, PING_DURATION, TRUE))
            /\ pingFlight' = RemoveAt(pingFlight, i)
       ELSE /\ UNCHANGED mobile_usage
            /\ pingFlight' =
                   IF pingFlight[i].attempt < RETRY_MAX_ATTEMPTS
                   THEN [pingFlight EXCEPT ![i] =
                            Ping("timer", pingFlight[i].attempt + 1, pingFlight[i].user_id,
                                 pingFlight[i].group_id, NULL,
                                 now + retryDelay(pingFlight[i].attempt + 1))]
                   ELSE RemoveAt(pingFlight, i)
    /\ UNCHANGED <<envVars, dbSchedules, dbHolidays, inflight, engineVars, appVars, insertErrors, notifications, swVars,
                   hookSchedules, groupId, isMobileApp, screenIsOn, hasInternetConnection,
                   authUser, fetchVars, closureVars>>

\* The timer of a retry fires and the retry's insert leaves.
pingRetry(i) ==
    /\ i \in 1..Len(pingFlight)
    /\ pingFlight[i].kind = "timer"
    /\ now >= pingFlight[i].due
    /\ pingFlight' = [pingFlight EXCEPT ![i] =
           Ping("insert", pingFlight[i].attempt, pingFlight[i].user_id,
                pingFlight[i].group_id, now, NULL)]
    /\ UNCHANGED <<envVars, dbVars, inflight, engineVars, appVars, insertErrors, notifications, swVars, hookSchedules, groupId,
                   isMobileApp, screenIsOn, hasInternetConnection, authUser, fetchVars, closureVars>>

\* The appStateChange listener: an app that becomes active pings; one that becomes
\* inactive sends an update closing every open row of the user in the group.
appStateChange(active) ==
    IF active
    THEN createUsageRecord(listenerClosure)
    ELSE /\ groupId # NULL
         /\ isMobileApp
         /\ authUser # NULL
         /\ Len(pingFlight) < MaxPings
         /\ pingFlight' = Append(pingFlight, Ping("close", 0, authUser, groupId, now, NULL))
         /\ UNCHANGED <<envVars, dbVars, inflight, engineVars, appVars, insertErrors, notifications,
                        swVars, hookSchedules, groupId, isMobileApp, screenIsOn,
                        hasInternetConnection, authUser, fetchVars, closureVars>>

\* The update of the inactive app is answered.
closeResponse(i, ok) ==
    /\ i \in 1..Len(pingFlight)
    /\ pingFlight[i].kind = "close"
    /\ pingFlight' = RemoveAt(pingFlight, i)
    /\ mobile_usage' =
           IF ok
           THEN [r \in 1..Len(mobile_usage) |->
                    IF /\ mobile_usage[r].user_id = pingFlight[i].user_id
                       /\ mobile_usage[r].group_id = pingFlight[i].group_id
                       /\ mobile_usage[r].end_time = NULL
                    THEN [mobile_usage[r] EXCEPT !.end_time = pingFlight[i].start_time,
                                                 !.duration = PING_DURATION]
                    ELSE mobile_usage[r]]
           ELSE mobile_usage
    /\ UNCHANGED <<envVars, dbSchedules, dbHolidays, inflight, engineVars, appVars, insertErrors,
                   notifications, swVars, hookSchedules, groupId, isMobileApp, screenIsOn,
                   hasInternetConnection, authUser, fetchVars, closureVars>>

\* ------------------------------------------------- the service worker's queue
noRecords == [k \in {} |-> NULL]

Payloads == {[end_time |-> t, duration |-> t] : t \in 1..MaxPayload}

GenIds == {100 + n : n \in 1..MaxGen}

\* store.getAll(): the records in the order of their keys, each about to be posted.
RECURSIVE getAllOfflineRecords(_)
getAllOfflineRecords(keys) ==
    IF keys = {}
    THEN <<>>
    ELSE LET k == CHOOSE x \in keys : \A y \in keys : x <= y
         IN  <<[id |-> k, data |-> offlineDB[k], state |-> "sent"]>>
                 \o getAllOfflineRecords(keys \ {k})

\* The message STORE_OFFLINE_USAGE: a record without an id gets a generated one, and
\* store.add fails where the key is taken.
storeOfflineUsage(id, data) ==
    /\ \E key \in (IF id = NULL THEN GenIds ELSE {id}) :
          IF key \in DOMAIN offlineDB
          THEN UNCHANGED <<offlineDB, syncRegistered>>
          ELSE /\ offlineDB' = [k \in DOMAIN offlineDB \cup {key} |->
                                   IF k = key THEN data ELSE offlineDB[k]]
               /\ syncRegistered' = TRUE
    /\ UNCHANGED <<envVars, dbVars, inflight, engineVars, appVars, insertErrors, notifications, hookVars, syncRunning, posts,
                   apiStore>>

\* The sync event of tag sync-mobile-usage: syncMobileUsage up to its fetches.
syncMobileUsage ==
    /\ syncRegistered
    /\ ~syncRunning
    /\ syncRegistered' = FALSE
    /\ posts' = getAllOfflineRecords(DOMAIN offlineDB)
    /\ syncRunning' = (DOMAIN offlineDB # {})
    /\ UNCHANGED <<envVars, dbVars, inflight, engineVars, appVars, insertErrors, notifications, hookVars, offlineDB, apiStore>>

acknowledgedAlways(outcome) == TRUE

\* response.ok
acknowledged(outcome) == outcome = "ok"

\* What the API did with the record: with "ok" it stored it, with "notok" it refused
\* it, with "throw" the request never arrived, with "lost" it stored the record and
\* its answer never arrived.
accepted(outcome) == outcome \in {"ok", "lost"}

Outcomes == {"ok", "notok", "throw", "lost"}

bodyWithoutId(record) == [id |-> NULL, data |-> record.data]

\* JSON.stringify(record): the body of the POST carries the record's id.
body(record) == [id |-> record.id, data |-> record.data]

\* The usage API storing a body: an upsert keyed by the id, and an insert for a body
\* that carries none.
upsert(rows, b) ==
    IF b.id # NULL /\ \E i \in 1..Len(rows) : rows[i].id = b.id
    THEN [i \in 1..Len(rows) |-> IF rows[i].id = b.id THEN b ELSE rows[i]]
    ELSE Append(rows, b)

\* The fetch of one record settles.
postSettles(p, outcome) ==
    /\ p \in 1..Len(posts)
    /\ posts[p].state = "sent"
    /\ IF accepted(outcome)
       THEN /\ Len(upsert(apiStore, body(posts[p]))) <= MaxAccepted
            /\ apiStore' = upsert(apiStore, body(posts[p]))
       ELSE UNCHANGED apiStore
    /\ IF outcome \in {"throw", "lost"}
       THEN posts' = RemoveAt(posts, p)
       ELSE IF acknowledged(outcome)
       THEN posts' = [posts EXCEPT ![p].state = "deleting"]
       ELSE posts' = RemoveAt(posts, p)
    /\ syncRunning' = (posts' # <<>>)
    /\ UNCHANGED <<envVars, dbVars, inflight, engineVars, appVars, insertErrors, notifications, hookVars, offlineDB,
                   syncRegistered>>

\* deleteOfflineRecord settles: the record is gone, or the delete failed.
deleteOfflineRecord(p, ok) ==
    /\ p \in 1..Len(posts)
    /\ posts[p].state = "deleting"
    /\ offlineDB' = IF ok
                    THEN [k \in DOMAIN offlineDB \ {posts[p].id} |-> offlineDB[k]]
                    ELSE offlineDB
    /\ posts' = RemoveAt(posts, p)
    /\ syncRunning' = (posts' # <<>>)
    /\ UNCHANGED <<envVars, dbVars, inflight, engineVars, appVars, insertErrors, notifications, hookVars, syncRegistered,
                   apiStore>>

\* ------------------------------------------------------------ the engine
Users == {1}
Groups == {1, 2}
GroupLists == {<<1, 2>>}

\* The store the engine runs against: group 1 is monitored on day 0 in two windows,
\* one ending before the clock's horizon and one that a suspension leads into.
SpecSchedules ==
    <<Schedule(1, 0, 0, MaxTime - 2, FALSE),
      Schedule(1, 0, VIOLATION_THRESHOLD + SuspendGap - 1, DayLen - 1, FALSE)>>

\* --------------------------------------------------------------- the App
\* backgroundMonitoring.isActive(): isActive is a boolean field of the engine (its
\* method is isMonitoringActive), so the call throws a TypeError.
isActiveIsCallable == FALSE

\* The cleanup of the monitoring effect: stop() where the render it closed over had
\* backgroundMonitoringInitialized true.
effectCleanup ==
    IF cleanup = "TRUE"
    THEN stop
    ELSE UNCHANGED <<envVars, dbVars, inflight, engineVars, hookVars, swVars, notifications,
                     insertErrors>>

\* The monitoring effect run again with the state (u, initialized): it returns early,
\* registering no cleanup, unless a user is set and monitoring is not initialized.
effectRun(u, initialized) ==
    cleanup' = IF u = NULL \/ initialized THEN "none" ELSE "FALSE"

\* initializeBackgroundMonitoring after its await of initialize(), and the then() of
\* the monitoring effect.
initializeReturns ==
    /\ appAwaiting
    /\ isActive
    /\ appAwaiting' = FALSE
    /\ backgroundMonitoringInitialized' = isActiveIsCallable
    /\ IF backgroundMonitoringInitialized' # backgroundMonitoringInitialized
       THEN effectCleanup /\ effectRun(appUserId, backgroundMonitoringInitialized')
       ELSE UNCHANGED <<envVars, dbVars, inflight, engineVars, hookVars, swVars, notifications,
                        insertErrors, cleanup>>
    /\ UNCHANGED appUserId

\* The auth listener on SIGNED_OUT, and the monitoring effect reacting to it.
signedOut ==
    /\ appUserId # NULL
    /\ backgroundMonitoringInitialized' = FALSE
    /\ appUserId' = NULL
    /\ effectCleanup
    /\ effectRun(appUserId', backgroundMonitoringInitialized')
    /\ UNCHANGED appAwaiting

\* The App with user 1 signed in: the monitoring effect has run and has called
\* initializeBackgroundMonitoring, which awaits initialize() or has returned.
appMounted(awaiting) ==
    /\ appUserId = 1
    /\ backgroundMonitoringInitialized = FALSE
    /\ appAwaiting = awaiting
    /\ cleanup = "FALSE"

constructed ==
    /\ userId = NULL
    /\ userGroups = <<>>
    /\ schedules = <<>>
    /\ holidays = <<>>
    /\ isActive = FALSE
    /\ currentUsageSession = NULL
    /\ sessionStartTime = NULL
    /\ monitoringInterval = FALSE
    /\ screenCheckInterval = FALSE
    /\ networkStatus = TRUE
    /\ isScreenActive = FALSE
    /\ lastActivityTime = now
    /\ consecutiveActiveTime = 0
    /\ notifications = 0
    /\ insertErrors = 0

\* The hooks as mounted for group 1 on a connected phone, before any fetch.
mounted ==
    /\ hookSchedules = <<>>
    /\ groupId = 1
    /\ isMobileApp = TRUE
    /\ screenIsOn = TRUE
    /\ hasInternetConnection = TRUE
    /\ authUser = 1
    /\ pingFlight = <<>>
    /\ retryAttempts = 0
    /\ fetchFlight = <<>>
    /\ pingClosure = Closure(TRUE, TRUE, <<>>)
    /\ listenerClosure = Closure(TRUE, TRUE, <<>>)
    /\ fetchClosure = 0

\* The service worker as installed, its store empty.
installed ==
    /\ offlineDB = noRecords
    /\ syncRegistered = FALSE
    /\ syncRunning = FALSE
    /\ posts = <<>>
    /\ apiStore = <<>>

\* The state after construction.
InitBoot ==
    /\ now = 0
    /\ tz = 0
    /\ hidden = FALSE
    /\ dbSchedules = SpecSchedules
    /\ dbHolidays = <<>>
    /\ mobile_usage = <<>>
    /\ inflight = <<>>
    /\ constructed
    /\ mounted
    /\ installed
    /\ appMounted(FALSE)

\* The state VIOLATION_THRESHOLD seconds after construction, when initialize(1, <<1, 2>>)
\* was called and answered at once and the user has touched the screen in every
\* second since: SpecBoot reaches it (Warm).
WarmEngine ==
    /\ now = VIOLATION_THRESHOLD
    /\ tz = 0
    /\ hidden = FALSE
    /\ dbSchedules = SpecSchedules
    /\ dbHolidays = <<>>
    /\ mobile_usage = <<>>
    /\ inflight = <<>>
    /\ userId = 1
    /\ userGroups = <<1, 2>>
    /\ schedules = SpecSchedules
    /\ holidays = <<>>
    /\ isActive = TRUE
    /\ currentUsageSession = NULL
    /\ sessionStartTime = NULL
    /\ monitoringInterval = TRUE
    /\ screenCheckInterval = TRUE
    /\ networkStatus = TRUE
    /\ isScreenActive = TRUE
    /\ lastActivityTime = now - 1
    /\ consecutiveActiveTime = VIOLATION_THRESHOLD
    /\ notifications = 0
    /\ insertErrors = 0
    /\ mounted
    /\ installed

Warm == WarmEngine /\ appMounted(FALSE)

Init == Warm

\* The App's first call of initialize on the engine.
Initialize == \E u \in Users, gs \in GroupLists : userId = NULL /\ initialize(u, gs)

RefreshSchedules == refreshSchedules

Stop == stop

NetworkStatusChange == \E c \in BOOLEAN : networkStatusChange(c)

UpdateActivityTime == updateActivityTime

VisibilityChange == visibilitychange

CheckScreenActivity == checkScreenActivity

SessionResponse ==
    \E i \in 1..Len(inflight), ok \in BOOLEAN :
        \/ InsertResponse(i, ok)
        \/ UpdateResponse(i, ok)

RefreshResponse ==
    \E i \in 1..Len(inflight), ok \in BOOLEAN :
        \/ SchedulesResponse(i, ok)
        \/ HolidaysResponse(i, ok)

\* The session state machine of an initialized engine.
Next ==
    \/ MonitoringIntervalTick
    \/ PulseTick
    \/ SessionResponse
    \/ NetworkStatusChange
    \/ UpdateActivityTime
    \/ CheckScreenActivity
    \/ Suspend

Spec == Init /\ [][Next]_vars

\* From construction to the state Spec starts in.
NextBoot ==
    \/ Initialize
    \/ RefreshResponse
    \/ UpdateActivityTime
    \/ CheckScreenActivity

SpecBoot == InitBoot /\ [][NextBoot]_vars

NotWarm == ~Warm

\* --------------------------------------------- the evaluation, input by input
\* The rows the evaluation is run against: a monitoring window of group 1 on day 0,
\* a break inside it, and an evening window that ends shortly before midnight.
EvalPool ==
    <<Schedule(1, 0, 10, 30, FALSE),
      Schedule(1, 0, 20, 25, TRUE),
      Schedule(1, 0, DayLen - 15, DayLen - 2, FALSE)>>

EvalScheduleSets ==
    {SelectSeq(EvalPool, LAMBDA s : s \in keep) : keep \in SUBSET Range(EvalPool)}

EvalHolidaySets == {<<>>, <<Holiday(1, 0, FALSE)>>, <<Holiday(1, 1, FALSE)>>}

EvalTimes == {d * DayLen + t : d \in {0, 1}, t \in {5, 15, 22, DayLen - 5}}

\* An initialized engine at some instant of the first two days, in some time zone,
\* against some schedule and holiday rows; its caches hold those rows or, a refresh
\* not having succeeded yet, nothing; a session is open or none is.  The ping service
\* was last set up in a render that saw the schedules the hook holds.
InitEval ==
    /\ now \in EvalTimes
    /\ tz \in {0 - TzShift, 0, TzShift}
    /\ hidden = FALSE
    /\ dbSchedules \in EvalScheduleSets
    /\ dbHolidays \in EvalHolidaySets
    /\ inflight = <<>>
    /\ userId = 1
    /\ userGroups = <<1, 2>>
    /\ \E loaded \in BOOLEAN :
          /\ schedules = IF loaded THEN inGroups(userGroups, dbSchedules) ELSE <<>>
          /\ holidays = IF loaded THEN inGroups(userGroups, dbHolidays) ELSE <<>>
    /\ isActive = TRUE
    /\ \E open \in BOOLEAN :
          /\ mobile_usage = IF open THEN <<UsageRow(1, 1, now - 3, NULL, NULL, FALSE)>>
                            ELSE <<>>
          /\ currentUsageSession = IF open THEN 1 ELSE NULL
          /\ sessionStartTime = IF open THEN now - 3 ELSE NULL
    /\ monitoringInterval = TRUE
    /\ screenCheckInterval = TRUE
    /\ networkStatus = TRUE
    /\ isScreenActive = TRUE
    /\ lastActivityTime = now - 1
    /\ consecutiveActiveTime \in {VIOLATION_THRESHOLD, VIOLATION_THRESHOLD + 1}
    /\ notifications = 0
    /\ insertErrors = 0
    /\ \E fetched \in BOOLEAN :
          hookSchedules = IF fetched THEN inGroups(<<1>>, dbSchedules) ELSE <<>>
    /\ groupId = 1
    /\ isMobileApp = TRUE
    /\ screenIsOn = TRUE
    /\ hasInternetConnection = TRUE
    /\ authUser = 1
    /\ pingFlight = <<>>
    /\ retryAttempts = 0
    /\ fetchFlight = <<>>
    /\ pingClosure = Closure(screenIsOn, hasInternetConnection, hookSchedules)
    /\ listenerClosure = Closure(TRUE, TRUE, <<>>)
    /\ fetchClosure = 0
    /\ installed
    /\ appMounted(FALSE)

\* The 30 s interval of the ping service calls the createUsageRecord it was set up
\* with.
CreateUsageRecord == createUsageRecord(pingClosure)

PingResponse == \E i \in 1..Len(pingFlight), ok \in BOOLEAN : pingResponse(i, ok)

PingRetry == \E i \in 1..Len(pingFlight) : pingRetry(i)

NextEval ==
    \/ MonitoringIntervalTick
    \/ PulseTick
    \/ SessionResponse
    \/ CreateUsageRecord
    \/ PingResponse

SpecEval == InitEval /\ [][NextEval]_vars

\* ------------------------------------------------------ the queue on its own
StoreOfflineUsage ==
    \E id \in {NULL} \cup (1..MaxRows), data \in Payloads : storeOfflineUsage(id, data)

SyncEvent == syncMobileUsage

PostSettles == \E p \in 1..Len(posts), outcome \in Outcomes : postSettles(p, outcome)

DeleteOfflineRecord == \E p \in 1..Len(posts), ok \in BOOLEAN : deleteOfflineRecord(p, ok)

NextQueue ==
    \/ StoreOfflineUsage
    \/ SyncEvent
    \/ PostSettles
    \/ DeleteOfflineRecord

SpecQueue == InitBoot /\ [][NextQueue]_vars

\* ------------------------------------------------------------- properties
Tick == MonitoringIntervalTick \/ PulseTick

\* The step issues an insert of the engine (for group g).
opens == pendingInserts' > pendingInserts

insertsFor(g) ==
    Cardinality({i \in 1..Len(inflight) :
                    inflight[i].kind = "insert" /\ inflight[i].group_id = g})

opensFor(g) == insertsFor(g)' > insertsFor(g)

\* The step issues an insert of the ping path.
pings == pendingPings' > pendingPings

\* The rows of user u in group g that the engine created and that are open.
openRows(u, g) ==
    {i \in 1..Len(mobile_usage) :
        /\ mobile_usage[i].user_id = u
        /\ mobile_usage[i].group_id = g
        /\ ~mobile_usage[i].is_within_schedule
        /\ mobile_usage[i].end_time = NULL}

\* C1: whatever ticks ran and however they interleaved with the answers of the
\* remote store, the store holds at most one open row (end_time = null) of the
\* engine per user and group.
C1_AtMostOneOpenRow ==
    \A u \in Users, g \in Groups : Cardinality(openRows(u, g)) <= 1

\* C2: two calls of checkSchedules in immediate succession, the second before the
\* write of the first is answered, issue at most one insert and at most one close:
\* no two inserts made at the same instant for the same user and group are pending
\* together, and no two closes of the same session are.
C2_TickIdempotent ==
    \A i, j \in 1..Len(inflight) :
        i < j =>
            /\ ~(/\ inflight[i].kind = "insert"
                 /\ inflight[j].kind = "insert"
                 /\ inflight[i].user_id = inflight[j].user_id
                 /\ inflight[i].group_id = inflight[j].group_id
                 /\ inflight[i].start_time = inflight[j].start_time)
            /\ ~(/\ inflight[i].kind = "update"
                 /\ inflight[j].kind = "update"
                 /\ inflight[i].cont = "end"
                 /\ inflight[j].cont = "end"
                 /\ inflight[i].id = inflight[j].id)

\* The engine's cache holds a monitoring window of today that contains the
\* wall-clock time, and no holiday of today.
monitoredNow ==
    /\ \E i \in 1..Len(schedules) :
          /\ schedules[i].day_of_week = getDay(now)
          /\ ~schedules[i].is_break
          /\ schedules[i].start_time <= toTimeString(now)
          /\ toTimeString(now) <= schedules[i].end_time
    /\ \A i \in 1..Len(holidays) : holidays[i].date # toISODate(now)

\* C3: while the time is monitored and the device connected, no tick opens a session
\* with consecutiveActiveTime <= 15, and a tick of an idle engine with
\* consecutiveActiveTime > 15 opens one.
C3_Threshold ==
    [][Tick /\ monitoredNow /\ networkStatus /\ userId # NULL =>
          /\ consecutiveActiveTime <= 15 => ~opens
          /\ (consecutiveActiveTime > 15 /\ currentUsageSession = NULL) => opens]_vars

\* A tick has just opened a session, at the first second past the threshold.
C3_Witness ==
    /\ consecutiveActiveTime = 16
    /\ networkStatus
    /\ monitoredNow
    /\ \E i \in 1..Len(inflight) :
          inflight[i].kind = "insert" /\ inflight[i].start_time = now

\* The cached holidays hold one of group g on the local calendar day.
holidayToday(g) ==
    \E i \in 1..Len(holidays) :
        holidays[i].group_id = g /\ holidays[i].date = (now + tz) \div DayLen

\* C4: on a day that is a holiday of the group a tick evaluates as not monitored,
\* whatever the windows: it opens no session for the group and leaves no session of
\* the group open.
C4_HolidayNotMonitored ==
    [][Tick =>
          \A g \in Groups :
              holidayToday(g) =>
                  /\ ~opensFor(g)
                  /\ (/\ currentUsageSession # NULL
                      /\ mobile_usage[currentUsageSession].group_id = g)
                         => currentUsageSession' = NULL]_vars

\* The rows ss hold a break and a monitoring window of group g, both of today and
\* both containing the wall-clock time.
breakInsideWindow(ss, g) ==
    \E i, j \in 1..Len(ss) :
        /\ ss[i].group_id = g /\ ss[j].group_id = g
        /\ ss[i].day_of_week = getDay(now) /\ ss[j].day_of_week = getDay(now)
        /\ ss[i].is_break /\ ~ss[j].is_break
        /\ ss[i].start_time <= toTimeString(now) /\ toTimeString(now) <= ss[i].end_time
        /\ ss[j].start_time <= toTimeString(now) /\ toTimeString(now) <= ss[j].end_time

\* C5: at an instant inside both a break and a monitoring window of the same group
\* and day the break wins: a tick opens no session for the group, and
\* isWithinSchedule returns false.
C5_BreakWins ==
    [][/\ Tick => \A g \in Groups : breakInsideWindow(schedules, g) => ~opensFor(g)
       /\ breakInsideWindow(hookSchedules, groupId) => ~isWithinSchedule(toISOString(now))
      ]_vars

\* The rows ss hold no window of today's day of the week.
noWindowToday(ss) == \A i \in 1..Len(ss) : ss[i].day_of_week # getDay(now)

\* C6: with no window at all for today's day of the week the evaluation is "not
\* monitored": a tick opens no session and leaves none open, and the ping path
\* creates no usage record.
C6_NoWindowNotMonitored ==
    [][/\ (Tick /\ noWindowToday(schedules)) => (~opens /\ currentUsageSession' = NULL)
       /\ (CreateUsageRecord /\ noWindowToday(hookSchedules)) => ~pings]_vars

\* C7: while the cached schedule set is empty, no refresh having succeeded, neither
\* a tick of the engine nor the ping path creates a usage record.
C7_NotLoadedNotMonitored ==
    [][/\ (Tick /\ Len(schedules) = 0) => ~opens
       /\ (CreateUsageRecord /\ Len(hookSchedules) = 0) => ~pings]_vars

\* C8: when a write of a session (its refresh or its close) fails, the offline
\* store holds one entry under the session's id, and the entry carries that
\* write's payload.
C8_FailedWriteQueued ==
    [][\A i \in 1..Len(inflight) :
          UpdateResponse(i, FALSE) =>
              /\ inflight[i].id \in DOMAIN offlineDB'
              /\ offlineDB'[inflight[i].id] =
                     [end_time |-> inflight[i].end_time, duration |-> inflight[i].duration]]_vars

\* C9: a flush posts every queued record; a record leaves the queue only when the
\* API has accepted that very record; and a record whose post was refused, threw or
\* got no answer stays queued as it was.
C9_FlushRemovesOnlyAcknowledged ==
    [][/\ \A k \in DOMAIN offlineDB \ DOMAIN offlineDB' :
             [id |-> k, data |-> offlineDB[k]] \in Range(apiStore)
       /\ SyncEvent =>
             \A k \in DOMAIN offlineDB :
                 \E p \in 1..Len(posts') :
                     posts'[p].id = k /\ posts'[p].data = offlineDB[k]
       /\ \A p \in 1..Len(posts) :
             (\E outcome \in Outcomes \ {"ok"} : postSettles(p, outcome)) =>
                 offlineDB' = offlineDB]_vars

\* A flush has run to its end: one record was accepted and removed, and another,
\* queued before the flush began, is still there.
C9_Witness ==
    /\ ~syncRunning
    /\ ~syncRegistered
    /\ posts = <<>>
    /\ DOMAIN offlineDB # {}
    /\ \E i \in 1..Len(apiStore) : apiStore[i].id \notin DOMAIN offlineDB

\* C10: the close of a session that was open when connectivity dropped is not lost:
\* when the write issued at the drop fails, its end_time and duration are still held
\* on the device, in a write on its way or in the offline store under the session's
\* id, from where they can reach the remote row once connectivity is back.
C10_CloseNotLost ==
    [][\A i \in 1..Len(inflight) :
          (/\ inflight[i].cont = "end"
           /\ inflight[i].offline
           /\ UpdateResponse(i, FALSE)) =>
              \/ \E j \in 1..Len(inflight') :
                    /\ inflight'[j].kind = "update"
                    /\ inflight'[j].id = inflight[i].id
                    /\ inflight'[j].end_time = inflight[i].end_time
                    /\ inflight'[j].duration = inflight[i].duration
              \/ /\ inflight[i].id \in DOMAIN offlineDB'
                 /\ offlineDB'[inflight[i].id].end_time = inflight[i].end_time
                 /\ offlineDB'[inflight[i].id].duration = inflight[i].duration]_vars

NextLife ==
    \/ MonitoringIntervalTick
    \/ PulseTick
    \/ SessionResponse
    \/ Stop
    \/ Initialize
    \/ RefreshResponse
    \/ UpdateActivityTime
    \/ CheckScreenActivity

SpecLife == Init /\ [][NextLife]_vars

\* C12: from stop() until the next initialize() the engine holds no user, and all
\* that time it has no live interval, tracks no session and opens none, whatever
\* was in flight when stop() was called.
C12_StoppedStaysStopped ==
    [][/\ userId' = NULL =>
             /\ ~monitoringInterval'
             /\ ~screenCheckInterval'
             /\ currentUsageSession' = NULL
       /\ userId = NULL => ~opens]_vars

\* ------------------------------------------------------------- signing out
\* initialize(1, <<1, 2>>) has just resolved, and the App is about to go on.
InitAuth ==
    /\ now = 0
    /\ tz = 0
    /\ hidden = FALSE
    /\ dbSchedules = SpecSchedules
    /\ dbHolidays = <<>>
    /\ mobile_usage = <<>>
    /\ inflight = <<>>
    /\ userId = 1
    /\ userGroups = <<1, 2>>
    /\ schedules = SpecSchedules
    /\ holidays = <<>>
    /\ isActive = TRUE
    /\ currentUsageSession = NULL
    /\ sessionStartTime = NULL
    /\ monitoringInterval = TRUE
    /\ screenCheckInterval = TRUE
    /\ networkStatus = TRUE
    /\ isScreenActive = FALSE
    /\ lastActivityTime = now
    /\ consecutiveActiveTime = 0
    /\ notifications = 0
    /\ insertErrors = 0
    /\ mounted
    /\ installed
    /\ appMounted(TRUE)

InitializeReturns == initializeReturns

SignedOut == signedOut

NextAuth ==
    \/ InitializeReturns
    \/ SignedOut
    \/ MonitoringIntervalTick
    \/ PulseTick
    \/ SessionResponse
    \/ UpdateActivityTime
    \/ CheckScreenActivity

SpecAuth == InitAuth /\ [][NextAuth]_vars

\* The step issues an update of a session.
updates ==
    Cardinality({i \in 1..Len(inflight') : inflight'[i].kind = "update"})
        > Cardinality({i \in 1..Len(inflight) : inflight[i].kind = "update"})

\* C13: a SIGNED_OUT event after a successful initialization tears the engine down:
\* the engine holds no user once the App holds none, and from then on no tick
\* issues a session insert or a session update.
C13_SignOutTearsDown ==
    [][/\ appUserId' = NULL => userId' = NULL
       /\ appUserId = NULL => (~opens /\ ~updates)]_vars

\* ------------------------------------------------ the session while it is open
\* The step issues the close of session id.
closes(id) ==
    \E j \in 1..Len(inflight') :
        /\ inflight'[j].cont = "end"
        /\ inflight'[j].id = id
        /\ \A i \in 1..Len(inflight) : inflight[i] # inflight'[j]

\* C14: the screen has become inactive (the counter is back at zero) while a session
\* is open inside a monitored window: the next tick closes the session and clears
\* the current session id.
C14_InactiveCloses ==
    (/\ userId # NULL
     /\ networkStatus
     /\ monitoredNow
     /\ currentUsageSession # NULL
     /\ ~isScreenActive
     /\ consecutiveActiveTime = 0
     /\ Len(inflight) < MaxInFlight) =>
        ENABLED (/\ MonitoringIntervalTick
                 /\ closes(currentUsageSession)
                 /\ currentUsageSession' = NULL)

\* C15: a duration refresh of an open session, applied by the remote store, leaves
\* the stored end_time null.
C15_RefreshLeavesOpen ==
    [][\A i \in 1..Len(inflight) :
          (inflight[i].cont = "refresh" /\ UpdateResponse(i, TRUE)) =>
              mobile_usage'[inflight[i].id].end_time = NULL]_vars

\* C16: an engine that tracks no session id and opens a session for a group first
\* closes every stored session of that user and group whose end_time is null: as the
\* insert leaves, a close of each such row is on its way.
C16_ReconcilesBeforeOpening ==
    [][\A g \in Groups :
          (currentUsageSession = NULL /\ opensFor(g)) =>
              \A r \in openRows(userId, g) :
                  \E j \in 1..Len(inflight') :
                      /\ inflight'[j].kind = "update"
                      /\ inflight'[j].id = r
                      /\ inflight'[j].end_time # NULL]_vars

\* C17: the remote store applies the writes of one session in the order the engine
\* produced them: a close is not applied while a duration refresh of the same
\* session, issued before it, is still on its way to be applied after it.
C17_WritesInOrder ==
    [][\A j \in 1..Len(inflight) :
          (inflight[j].cont = "end" /\ UpdateResponse(j, TRUE)) =>
              \A i \in 1..(j - 1) :
                  ~(/\ inflight[i].cont = "refresh"
                    /\ inflight[i].id = inflight[j].id
                    /\ ~inflight[i].offline)]_vars

\* ------------------------------------------------------- the notification
NotificationSettles == \E shown \in BOOLEAN : notificationSettles(shown)

NextNotify ==
    \/ MonitoringIntervalTick
    \/ PulseTick
    \/ SessionResponse
    \/ NotificationSettles
    \/ UpdateActivityTime
    \/ CheckScreenActivity

SpecNotify == Init /\ [][NextNotify]_vars

\* C18: the violation notification gates no transition.  The session is current as
\* the notification is sent; a notification that is shown or that fails changes no
\* session state, no request and no stored row; and while one has not completed, a
\* tick outside every window still closes the session.
C18_NotificationGatesNothing ==
    [][/\ notifications' > notifications =>
              (currentUsageSession' # NULL /\ sessionStartTime' = now)
       /\ notifications' < notifications =>
              UNCHANGED <<sessionVars, inflight, mobile_usage>>
       /\ (/\ Tick
           /\ notifications > 0
           /\ userId # NULL
           /\ networkStatus
           /\ ~monitoredNow
           /\ currentUsageSession # NULL) =>
              (closes(currentUsageSession) /\ currentUsageSession' = NULL)]_vars

\* A tick has closed the session whose notification has not completed.
C18_Witness ==
    /\ notifications > 0
    /\ currentUsageSession = NULL
    /\ \E j \in 1..Len(inflight) : inflight[j].cont = "end"

\* ------------------------------------------------------ what a close stores
\* C19: when the close of a session is applied, the stored duration is the stored
\* end_time minus the stored start_time.
C19_DurationIsEndMinusStart ==
    [][\A i \in 1..Len(inflight) :
          (inflight[i].cont = "end" /\ UpdateResponse(i, TRUE)) =>
              mobile_usage'[inflight[i].id].duration =
                  mobile_usage'[inflight[i].id].end_time
                      - mobile_usage'[inflight[i].id].start_time]_vars

\* C20: while the connectivity flag is false the engine tracks no current session.
C20_OfflineNoSession ==
    ~networkStatus => currentUsageSession = NULL

\* ---------------------------------------------------------- the ping's retries
\* The ping hook on a phone whose engine was never initialized: pings, their answers,
\* their retry timers, and the seconds passing.
AppStateChange == \E active \in BOOLEAN : appStateChange(active)

CloseResponse == \E i \in 1..Len(pingFlight), ok \in BOOLEAN : closeResponse(i, ok)

NextPing ==
    \/ CreateUsageRecord
    \/ PingResponse
    \/ PingRetry
    \/ AppStateChange
    \/ CloseResponse
    \/ TimePasses

SpecPing == InitBoot /\ [][NextPing]_vars

\* C21: a ping whose insert failed is retried at most 3 times, the retries waiting
\* 2 s, 4 s and 8 s; a retry leaves only when its delay has passed; an insert that
\* succeeds stores one row and ends the ping, so no retry follows it.
C21_BoundedBackoff ==
    [][/\ \A i \in 1..Len(pingFlight') : pingFlight'[i].attempt <= 3
       /\ \A i \in 1..Len(pingFlight) :
             /\ (pingResponse(i, FALSE) /\ Len(pingFlight') = Len(pingFlight)) =>
                    /\ pingFlight'[i].kind = "timer"
                    /\ pingFlight'[i].attempt = pingFlight[i].attempt + 1
                    /\ pingFlight'[i].attempt = 1 => pingFlight'[i].due = now + 2
                    /\ pingFlight'[i].attempt = 2 => pingFlight'[i].due = now + 4
                    /\ pingFlight'[i].attempt = 3 => pingFlight'[i].due = now + 8
             /\ (pingResponse(i, FALSE) /\ Len(pingFlight') < Len(pingFlight)) =>
                    pingFlight[i].attempt = 3
             /\ pingRetry(i) => now >= pingFlight[i].due
             /\ pingResponse(i, TRUE) =>
                    /\ pingFlight' = RemoveAt(pingFlight, i)
                    /\ Len(mobile_usage') = Len(mobile_usage) + 1
       /\ Len(mobile_usage') > Len(mobile_usage) => Len(pingFlight') < Len(pingFlight)]_vars

\* The third retry of a ping, sent 2 + 4 + 8 s after the ping or later, has stored
\* the ping's only row.
C21_Witness ==
    /\ pingFlight = <<>>
    /\ Len(mobile_usage) = 1
    /\ mobile_usage[1].is_within_schedule
    /\ mobile_usage[1].start_time >= 14

\* ------------------------------------------------------ a failed session insert
\* C22: an insert of a session that fails leaves the engine idle as it was: no
\* session field, notification or stored row changes; and a tick that finds the
\* monitoring conditions again, with no session current, sends the insert again.
C22_FailedOpenRetried ==
    [][/\ \A i \in 1..Len(inflight) :
             InsertResponse(i, FALSE) =>
                 UNCHANGED <<sessionVars, notifications, mobile_usage, timerVars>>
       /\ (/\ Tick
           /\ insertErrors > 0
           /\ userId # NULL
           /\ networkStatus
           /\ monitoredNow
           /\ ExceedsThreshold(consecutiveActiveTime)
           /\ currentUsageSession = NULL) => opens]_vars

\* After an insert failed, a tick has sent the insert again: of three inserts sent,
\* no more than MaxRows at once, none was stored and one was answered with an error.
C22_Witness ==
    /\ insertErrors > 0
    /\ currentUsageSession = NULL
    /\ sessionStartTime = NULL
    /\ notifications = 0
    /\ mobile_usage = <<>>
    /\ pendingInserts = MaxRows
    /\ monitoringInterval

\* ------------------------------------------------------------ after a gap
\* The step issues a duration refresh.
refreshes ==
    Cardinality({i \in 1..Len(inflight') : inflight'[i].cont = "refresh"})
        > Cardinality({i \in 1..Len(inflight) : inflight[i].cont = "refresh"})

\* C23: a tick opens or refreshes a session only if the screen is active at that
\* tick, the last activity being less than the activity gap old, however long ago
\* the tick before it ran.
C23_TickEvaluatesAfresh ==
    [][(Tick /\ (opens \/ refreshes)) => now - lastActivityTime < ACTIVITY_GAP]_vars

\* ------------------------------------------------------ the activity counter
\* The engine with the page being hidden and shown again.
NextScreen ==
    \/ CheckScreenActivity
    \/ UpdateActivityTime
    \/ VisibilityChange
    \/ MonitoringIntervalTick
    \/ PulseTick
    \/ SessionResponse

SpecScreen == Init /\ [][NextScreen]_vars

\* C24: a sampling tick makes the counter its previous value + 1 when the last
\* activity is less than 2 s old and 0 otherwise; no other step changes the counter
\* but the page becoming hidden, which resets it to 0; so the counter grows by one
\* per sampling tick at most.
C24_CounterCountsSamples ==
    [][/\ checkScreenActivity =>
              consecutiveActiveTime' =
                  IF now' - lastActivityTime < 2 THEN consecutiveActiveTime + 1 ELSE 0
       /\ (consecutiveActiveTime' # consecutiveActiveTime /\ ~checkScreenActivity) =>
              (~hidden /\ hidden' /\ consecutiveActiveTime' = 0)
       /\ consecutiveActiveTime' <= consecutiveActiveTime + 1]_vars

\* The counter was reset to 0, and two sampling ticks have counted since.
C24_Witness ==
    /\ ~hidden
    /\ isScreenActive
    /\ consecutiveActiveTime = 2

\* C25: the page becoming hidden marks the screen inactive and resets the counter at
\* once, and every sampling tick taken while the page stays hidden leaves the
\* screen inactive and the counter at 0.
C25_HiddenStaysInactive ==
    [][/\ (~hidden /\ hidden') => (~isScreenActive' /\ consecutiveActiveTime' = 0)
       /\ (hidden /\ hidden' /\ checkScreenActivity) =>
              (~isScreenActive' /\ consecutiveActiveTime' = 0)]_vars

\* ----------------------------------------------------- holidays on the calendar
\* The rows the calendar is evaluated against: the same window for each of the two
\* groups, on the day of the week that day 0 and, a year later, day YearLen fall on.
CalendarPool ==
    <<Schedule(1, 0, 10, 30, FALSE), Schedule(2, 0, 10, 30, FALSE)>>

CalendarScheduleSets ==
    {SelectSeq(CalendarPool, LAMBDA s : s \in keep) : keep \in SUBSET Range(CalendarPool)}

\* A holiday of day 0, of either group, recurring or not.
CalendarHolidaySets ==
    {<<>>} \cup {<<Holiday(g, 0, r)>> : g \in Groups, r \in BOOLEAN}

\* An instant inside and one outside the window, on the holiday's date, the day
\* after, the same date a year later, and the day after that.
CalendarTimes ==
    {d * DayLen + t : d \in {0, 1, YearLen, YearLen + 1}, t \in {15, 40}}

\* An initialized engine whose caches hold the rows, in UTC, the user active for
\* 15 or 16 s, a session of either group open or none.
InitCalendar ==
    /\ now \in CalendarTimes
    /\ tz = 0
    /\ hidden = FALSE
    /\ dbSchedules \in CalendarScheduleSets
    /\ dbHolidays \in CalendarHolidaySets
    /\ inflight = <<>>
    /\ userId = 1
    /\ userGroups = <<1, 2>>
    /\ schedules = inGroups(userGroups, dbSchedules)
    /\ holidays = inGroups(userGroups, dbHolidays)
    /\ isActive = TRUE
    /\ \E open \in {NULL} \cup Groups :
          /\ mobile_usage = IF open # NULL
                            THEN <<UsageRow(1, open, now - 3, NULL, NULL, FALSE)>>
                            ELSE <<>>
          /\ currentUsageSession = IF open # NULL THEN 1 ELSE NULL
          /\ sessionStartTime = IF open # NULL THEN now - 3 ELSE NULL
    /\ monitoringInterval = TRUE
    /\ screenCheckInterval = TRUE
    /\ networkStatus = TRUE
    /\ isScreenActive = TRUE
    /\ lastActivityTime = now - 1
    /\ consecutiveActiveTime \in {VIOLATION_THRESHOLD, VIOLATION_THRESHOLD + 1}
    /\ notifications = 0
    /\ insertErrors = 0
    /\ mounted
    /\ installed
    /\ appMounted(FALSE)

NextCalendar ==
    \/ MonitoringIntervalTick
    \/ PulseTick
    \/ SessionResponse

SpecCalendar == InitCalendar /\ [][NextCalendar]_vars

\* The month and day of a date, and its year.
monthDay(d) == d % YearLen

\* The cached holidays hold one of group g that applies today: stored with today's
\* date, or recurring and stored with today's month and day of some year.
holidayApplies(g) ==
    \E i \in 1..Len(holidays) :
        /\ holidays[i].group_id = g
        /\ \/ holidays[i].date = toISODate(now)
           \/ /\ holidays[i].is_recurring
              /\ monthDay(holidays[i].date) = monthDay(toISODate(now))

\* The cached schedules hold a monitoring window of group g that contains now.
windowNow(g) ==
    \E i \in 1..Len(schedules) : schedules[i].group_id = g /\ isActiveSchedule(schedules[i])

\* C26: a recurring holiday suppresses monitoring on its month and day in every
\* year: a tick opens no session for a group on a day a holiday of the group
\* applies to.  A holiday that is not recurring suppresses its own date only: with a
\* window containing now and no holiday applying, a tick with the user past the
\* threshold and no session current opens one.
C26_RecurringHoliday ==
    [][Tick =>
          /\ \A g \in Groups : holidayApplies(g) => ~opensFor(g)
          /\ (/\ \E g \in Groups : windowNow(g)
              /\ \A g \in Groups : ~holidayApplies(g)
              /\ currentUsageSession = NULL
              /\ ExceedsThreshold(consecutiveActiveTime)) => opens]_vars

\* C27: a holiday suppresses the windows of its own group only: with a window of
\* group h containing now and no holiday of h applying, a tick with the user past
\* the threshold and no session current opens a session, whatever holidays the
\* user's other groups have today.
C27_HolidayOfOwnGroupOnly ==
    \A h \in Groups :
        (/\ userId # NULL
         /\ networkStatus
         /\ windowNow(h)
         /\ \A g \in Groups : windowNow(g) => ~holidayApplies(g)
         /\ \E g \in Groups : holidayApplies(g)
         /\ currentUsageSession = NULL
         /\ isScreenActive
         /\ ExceedsThreshold(consecutiveActiveTime)
         /\ inflight = <<>>
         /\ mobile_usage = <<>>) =>
            ENABLED (MonitoringIntervalTick /\ opensFor(h))

\* ------------------------------------------------------- refreshing the caches
\* initialize called on an engine that holds a user already: by the App when the
\* network comes back, or for another user.
Accounts == {1, 2}

Reinitialize == \E u \in Accounts, gs \in GroupLists : userId # NULL /\ initialize(u, gs)

\* An administrator edits the group's schedules, or its holidays.
SchedulesEdited ==
    /\ dbSchedules' \in
           {SelectSeq(SpecSchedules, LAMBDA r : r \in keep) : keep \in SUBSET Range(SpecSchedules)}
    /\ dbSchedules' # dbSchedules
    /\ UNCHANGED <<envVars, dbHolidays, mobile_usage, inflight, engineVars, hookVars, swVars,
                   appVars, notifications, insertErrors>>

HolidaysEdited ==
    /\ dbHolidays' \in CalendarHolidaySets
    /\ dbHolidays' # dbHolidays
    /\ UNCHANGED <<envVars, dbSchedules, mobile_usage, inflight, engineVars, hookVars, swVars,
                   appVars, notifications, insertErrors>>

NextRefresh ==
    \/ Initialize
    \/ Reinitialize
    \/ RefreshSchedules
    \/ RefreshResponse
    \/ SchedulesEdited
    \/ HolidaysEdited
    \/ MonitoringIntervalTick
    \/ PulseTick

SpecRefresh == InitBoot /\ [][NextRefresh]_vars

\* C28: a refresh that succeeds replaces the cached set, in the one step of its
\* answer, by the set fetched for the groups it asked for; a refresh that fails
\* leaves the cached set as it was; and no other step, a tick least of all, changes
\* or sees anything between the two sets.
C28_RefreshReplacesWholesale ==
    [][/\ \A i \in 1..Len(inflight) :
             /\ SchedulesResponse(i, TRUE) =>
                    schedules' = inGroups(inflight[i].groupIds, dbSchedules)
             /\ SchedulesResponse(i, FALSE) => schedules' = schedules
             /\ HolidaysResponse(i, TRUE) =>
                    holidays' = inGroups(inflight[i].groupIds, dbHolidays)
             /\ HolidaysResponse(i, FALSE) => holidays' = holidays
       /\ schedules' # schedules => \E i \in 1..Len(inflight) : SchedulesResponse(i, TRUE)
       /\ holidays' # holidays => \E i \in 1..Len(inflight) : HolidaysResponse(i, TRUE)]_vars

\* Both caches hold what a refresh fetched after the tables were edited.
C28_Witness ==
    /\ dbSchedules # SpecSchedules
    /\ Len(schedules) > 0
    /\ schedules = inGroups(userGroups, dbSchedules)
    /\ Len(holidays) > 0
    /\ holidays = inGroups(userGroups, dbHolidays)

\* ---------------------------------------------------- the rows the pings leave
\* C29: in the ping variant the store never holds two rows of one user and group
\* whose end_time is null.
C29_PingAtMostOneOpenRow ==
    \A u \in Users, g \in Groups :
        Cardinality({i \in 1..Len(mobile_usage) :
                        /\ mobile_usage[i].user_id = u
                        /\ mobile_usage[i].group_id = g
                        /\ mobile_usage[i].end_time = NULL}) <= 1

\* ------------------------------------------------------- another user signs in
\* The running engine initialized again, for the same user or for another.
NextSwitch ==
    \/ Reinitialize
    \/ RefreshResponse
    \/ MonitoringIntervalTick
    \/ PulseTick
    \/ SessionResponse
    \/ UpdateActivityTime
    \/ CheckScreenActivity

SpecSwitch == Init /\ [][NextSwitch]_vars

\* C30: the session the engine tracks as current is a session of the engine's
\* current user.
C30_SessionOfCurrentUser ==
    currentUsageSession # NULL => mobile_usage[currentUsageSession].user_id = userId

\* ------------------------------------------------ the group a session belongs to
\* The step issues a duration refresh of session id.
refreshesSession(id) ==
    \E j \in 1..Len(inflight') :
        /\ inflight'[j].cont = "refresh"
        /\ inflight'[j].id = id
        /\ \A i \in 1..Len(inflight) : inflight[i] # inflight'[j]

\* The engine's tick would run its evaluation: a user, a connection and groups.
evaluates == userId # NULL /\ networkStatus /\ Len(userGroups) > 0

\* C31: a session stays current over a tick only while the group it was opened for
\* has a monitoring window (not a break) containing now: with no such window, and
\* be it that a window of another group contains now, the tick closes the session
\* and clears the current session id, and it never refreshes the session's duration.
C31_SessionOfOwnWindow ==
    /\ []((/\ evaluates
           /\ monitoringInterval
           /\ currentUsageSession # NULL
           /\ ~windowNow(mobile_usage[currentUsageSession].group_id)
           /\ Len(inflight) < MaxInFlight)
              => ENABLED (/\ MonitoringIntervalTick
                          /\ closes(currentUsageSession)
                          /\ currentUsageSession' = NULL))
    /\ [][(/\ Tick
           /\ currentUsageSession # NULL
           /\ ~windowNow(mobile_usage[currentUsageSession].group_id))
              => ~refreshesSession(currentUsageSession)]_vars

\* ------------------------------------------------------ what a close is built from
\* C32: the close that endCurrentSession issues carries the id that was current when
\* it was called, the time of the call, and the time elapsed since that session's
\* start time, and the call clears both fields; the close on its way is changed by no
\* later step, a session opened in the meantime included, and its answer stores its
\* end_time and duration in the row of its id and touches no other row.  The start
\* time is the one kept for the current session: both fields are set together.
C32_CloseOfCalledSession ==
    [][/\ (/\ Len(inflight') > Len(inflight)
           /\ inflight'[Len(inflight')].cont = "end") =>
              /\ currentUsageSession # NULL
              /\ inflight'[Len(inflight')].id = currentUsageSession
              /\ inflight'[Len(inflight')].end_time = now
              /\ inflight'[Len(inflight')].duration = now - sessionStartTime
              /\ currentUsageSession' = NULL
              /\ sessionStartTime' = NULL
       /\ \A i \in 1..Len(inflight) :
             inflight[i].cont = "end" =>
                \/ /\ i \in 1..Len(inflight')
                   /\ inflight'[i] = inflight[i]
                   /\ mobile_usage'[inflight[i].id].end_time
                         = mobile_usage[inflight[i].id].end_time
                \/ /\ inflight' = RemoveAt(inflight, i)
                   /\ \/ mobile_usage' = mobile_usage
                      \/ mobile_usage' = [mobile_usage EXCEPT ![inflight[i].id] =
                            [@ EXCEPT !.end_time = inflight[i].end_time,
                                      !.duration = inflight[i].duration]]
                \/ \E j \in 1..(i - 1) : inflight' = RemoveAt(inflight, j)
       /\ (currentUsageSession' # currentUsageSession /\ currentUsageSession' # NULL) =>
              sessionStartTime' = now'
       /\ sessionStartTime' # sessionStartTime =>
              currentUsageSession' # currentUsageSession]_vars

\* A close of session 1 is on its way while session 2, opened after the close was
\* issued or answered after it, is current: the close still names session 1.
C32_Witness ==
    /\ currentUsageSession = 2
    /\ \E j \in 1..Len(inflight) : inflight[j].cont = "end" /\ inflight[j].id = 1

\* ------------------------------------------------------- the hooks over time
\* The effect of useScheduleManager on mount, or its realtime listener on a change of
\* the group's schedules: both hold the fetchSchedules of the render that set them up.
FetchSchedules == fetchSchedules(fetchClosure)

FetchResponse ==
    \E i \in 1..Len(fetchFlight), outcome \in {"ok", "error", "throw"} :
        fetchResponse(i, outcome)

FetchRetry == \E i \in 1..Len(fetchFlight) : fetchRetry(i)

PropsChange == \E on, connected \in BOOLEAN : propsChange(on, connected)

\* The schedule hook on its own, against a table that is edited and an engine that
\* may have been initialized.
NextFetch ==
    \/ FetchSchedules
    \/ FetchResponse
    \/ FetchRetry
    \/ SchedulesEdited
    \/ Initialize
    \/ RefreshResponse
    \/ TimePasses

SpecFetch == InitBoot /\ [][NextFetch]_vars

\* C34: a fetch of the schedules answered with an error is retried while the retry
\* count is below 3, after 3 s, 6 s and 12 s as the count is 0, 1 and 2, and each
\* retry raises the count by one; at a count of 3 an error arms no retry; a fetch
\* answered with rows sets the count to 0.
C34_FetchRetriesBounded ==
    [][\A i \in 1..Len(fetchFlight) :
          /\ fetchResponse(i, "error") =>
                IF retryAttempts < 3
                THEN /\ Len(fetchFlight') = Len(fetchFlight)
                     /\ fetchFlight'[i].kind = "timer"
                     /\ retryAttempts = 0 => fetchFlight'[i].due = now + 3
                     /\ retryAttempts = 1 => fetchFlight'[i].due = now + 6
                     /\ retryAttempts = 2 => fetchFlight'[i].due = now + 12
                     /\ retryAttempts' = retryAttempts + 1
                ELSE fetchFlight' = RemoveAt(fetchFlight, i)
          /\ fetchResponse(i, "ok") => retryAttempts' = 0]_vars

\* The ping service and the schedule hook it takes isWithinSchedule from.
NextHook ==
    \/ FetchSchedules
    \/ FetchResponse
    \/ FetchRetry
    \/ PropsChange
    \/ CreateUsageRecord
    \/ PingResponse
    \/ TimePasses

SpecHook == InitBoot /\ [][NextHook]_vars

\* The step sends the insert of a new ping: a createUsageRecord got through its tests.
sendsPing ==
    /\ Len(pingFlight') > Len(pingFlight)
    /\ pingFlight'[Len(pingFlight')].kind = "insert"

\* C33: a ping inserts a usage record only if, as it runs, a group is selected, the
\* app is a mobile app, the screen is on, the device is connected and the time is
\* within the schedules the hook holds then: whatever changed before the ping,
\* schedules included, the ping goes by the values of its own moment.
C33_PingHonoursInputs ==
    [][sendsPing =>
          /\ groupId' # NULL
          /\ isMobileApp'
          /\ screenIsOn'
          /\ hasInternetConnection'
          /\ isWithinScheduleOf(hookSchedules', toISOString(now'))]_vars

====
